---- MODULE Spec2Model ----
(***************************************************************************)
(* Model of the ESP32 plant-watering agent in src/esp/main.py: the module  *)
(* globals, the relay and LED pins, the three timer callbacks, main() and   *)
(* its shutdown handler, with the WiFi link and the backend as the          *)
(* environment.                                                             *)
(***************************************************************************)
EXTENDS Integers, Sequences, FiniteSets, TLC

VARIABLES
    relay_state,       \* global relay_state (main.py:27)
    last_moisture,     \* global last_moisture (main.py:28)
    wifi_connected,    \* global wifi_connected (main.py:29)
    server_available,  \* global server_available (main.py:30)
    relay,             \* output level of the relay pin (main.py:33)
    led,               \* output level of the LED pin (main.py:34)
    pc,                \* position of main()
    timers,            \* the periodic timers that are initialised and not deinitialised
    link,              \* environment: what wlan.isconnected() answers now
    srvRelay,          \* environment: the backend's authoritative relay value
    stable,            \* environment: link up, backend answering 200, srvRelay constant from now on
    op,                \* observation: the operation that made the last step
    pre,               \* observation: the globals and the pin when that operation started
    inp,               \* observation: what the sensor and the backend were set to answer to it
    net,               \* observation: the HTTP requests that operation issued, in order
    acts,              \* observation: the values that operation wrote to the relay pin, in order
    raised,            \* observation: an exception escaped that operation
    ret,               \* observation: what the function that operation called returned
    probes,            \* observation: the GET /health probes that failed in a row
    cb                 \* position of check_connections when it is run statement by statement

vars == <<relay_state, last_moisture, wifi_connected, server_available, relay, led,
          pc, timers, link, srvRelay, stable, op, pre, inp, net, acts, raised,
          ret, probes, cb>>

-----------------------------------------------------------------------------
(* Program constants *)

WET_VALUE == 1500
DRY_VALUE == 4095
ADC_MAX == 4095
NUM_READINGS == 5
CONNECT_TIMEOUT == 20

(* Bounds of the model *)

\* number of distinct raw ADC levels the sensor is made to answer
RawLevels == 2

\* the count of failed probes in a row stops at this number
MaxProbes == 3

-----------------------------------------------------------------------------
(* Helpers *)

Max(a, b) == IF a >= b THEN a ELSE b
Min(a, b) == IF a <= b THEN a ELSE b

RECURSIVE SumSeq(_)
SumSeq(q) == IF q = <<>> THEN 0 ELSE Head(q) + SumSeq(Tail(q))

\* Optional values: None is <<>>, a value v is <<v>>
None == <<>>
Some(v) == <<v>>

Request(method, path, body) == [method |-> method, path |-> path, body |-> body]

\* The requests of a log that went to one path
ToPath(log, method, path) ==
    SelectSeq(log, LAMBDA r : r.method = method /\ r.path = path)

-----------------------------------------------------------------------------
(* The environment's answers *)

RawSamples == { (ADC_MAX * i) \div (RawLevels - 1) : i \in 0..(RawLevels - 1) }

\* A sampling cycle: the five values the ADC answers, and the read that raises (0: none).
\* The cycles tried: every level held five times, four reads of the highest level
\* followed by one of the lowest, and a cycle whose first read raises.
SensorRuns ==
    { [readings |-> [i \in 1..NUM_READINGS |-> a], failAt |-> 0] : a \in RawSamples }
    \cup
    { [readings |-> [i \in 1..NUM_READINGS |-> IF i < NUM_READINGS THEN ADC_MAX ELSE 0],
       failAt |-> 0],
      [readings |-> [i \in 1..NUM_READINGS |-> 0], failAt |-> 1] }

\* No sampling cycle is set up for an operation that is not expected to read the
\* sensor: a read would raise at once
NoRun == [readings |-> <<>>, failAt |-> 1]

\* A plain exchange: transport exception, a non-200 status, or 200
PlainAnswers == IF stable THEN {"ok"} ELSE {"exc", "non200", "ok"}

\* A JSON exchange: as above, and a 200 whose body does not parse, parses but
\* lacks the relay field, or carries the backend's authoritative value
JsonAnswers == IF stable THEN {"field"} ELSE {"exc", "non200", "badjson", "nofield", "field"}

\* wlan.isconnected() at a later poll of the same callback
LaterPolls == IF stable THEN {TRUE} ELSE BOOLEAN

-----------------------------------------------------------------------------
(* The machine state a function works on: the globals, the pins, the backend *)
(* and the effects of the running operation.  ret is the returned value.     *)

Cur ==
    [relay_state |-> relay_state, last_moisture |-> last_moisture,
     wifi_connected |-> wifi_connected, server_available |-> server_available,
     relay |-> relay, led |-> led, link |-> link, srvRelay |-> srvRelay,
     net |-> <<>>, acts |-> <<>>, raised |-> FALSE, ret |-> None, probes |-> probes]

Snapshot ==
    [relay_state |-> relay_state, relay |-> relay,
     wifi_connected |-> wifi_connected, server_available |-> server_available,
     srvRelay |-> srvRelay]

NoInput == [arg |-> None, sensor |-> "none", health |-> "none", status |-> "none",
            telemetry |-> "none", notify |-> "none"]

-----------------------------------------------------------------------------
(* read_soil_moisture *)

CalibrationMap_WholeTruncated(raw_value) ==
    LET moisture_percentage ==
            IF raw_value <= 1500 THEN 100
            ELSE IF raw_value >= 4095 THEN 0
            ELSE ((100 * (4095 - 1500)) - ((raw_value - 1500) * 100)) \div (4095 - 1500)
    IN  IF moisture_percentage < 0 THEN 0
        ELSE IF moisture_percentage > 100 THEN 100 ELSE moisture_percentage

CalibrationMap_NotInverted(raw_value) ==
    LET moisture_percentage ==
            IF raw_value <= 1500 THEN 100
            ELSE IF raw_value >= 4095 THEN 0
            ELSE ((raw_value - 1500) * 100) \div (4095 - 1500)
    IN  IF moisture_percentage < 0 THEN 0
        ELSE IF moisture_percentage > 100 THEN 100 ELSE moisture_percentage

\* lines 80-87: int(x / y) of two non-negative integers is x \div y
CalibrationMap(raw_value) ==
    LET moisture_percentage ==
            IF raw_value <= WET_VALUE THEN 100
            ELSE IF raw_value >= DRY_VALUE THEN 0
            ELSE 100 - (((raw_value - WET_VALUE) * 100) \div (DRY_VALUE - WET_VALUE))
    IN  Max(0, Min(100, moisture_percentage))

read_soil_moisture(s, run) ==
    IF run.failAt # 0
    THEN [s EXCEPT !.ret = Some(s.last_moisture)]
    ELSE LET raw_value == SumSeq(run.readings) \div Len(run.readings)
             moisture_percentage == CalibrationMap(raw_value)
         IN  [s EXCEPT !.last_moisture = moisture_percentage,
                       !.ret = Some(moisture_percentage)]

-----------------------------------------------------------------------------
(* update_relay_state *)

\* The backend receiving POST /relay/set: a 200 answer means it took the value
BackendRelaySet(s, state, answer) ==
    IF answer = "ok" THEN [s EXCEPT !.srvRelay = state] ELSE s

\* update_relay_state with the guard of line 163 dropped: the POST is always attempted
update_relay_state_NotifyAlways(s, new_state, run, notify) ==
    IF s.relay_state # new_state
    THEN LET s1 == [s EXCEPT !.relay_state = new_state,
                             !.relay = new_state,
                             !.acts = Append(s.acts, new_state)]
             s2 == read_soil_moisture(s1, run)
             moisture == s2.ret[1]
             data == [state |-> s2.relay_state, humidity |-> moisture]
             s3 == [s2 EXCEPT !.net = Append(s2.net, Request("POST", "/relay/set", data))]
         IN  [BackendRelaySet(s3, data.state, notify) EXCEPT !.ret = Some(TRUE)]
    ELSE [s EXCEPT !.ret = Some(FALSE)]

\* update_relay_state undoing the change when the notification does not get through
update_relay_state_Rollback(s, new_state, run, notify) ==
    IF s.relay_state # new_state
    THEN LET s1 == [s EXCEPT !.relay_state = new_state,
                             !.relay = new_state,
                             !.acts = Append(s.acts, new_state)]
         IN  IF s1.wifi_connected /\ s1.server_available
             THEN LET s2 == read_soil_moisture(s1, run)
                      moisture == s2.ret[1]
                      data == [state |-> s2.relay_state, humidity |-> moisture]
                      s3 == [s2 EXCEPT !.net = Append(s2.net, Request("POST", "/relay/set", data))]
                  IN  IF notify = "ok"
                      THEN [BackendRelaySet(s3, data.state, notify) EXCEPT !.ret = Some(TRUE)]
                      ELSE [s3 EXCEPT !.relay_state = s.relay_state,
                                      !.relay = s.relay_state,
                                      !.acts = Append(s3.acts, s.relay_state),
                                      !.ret = Some(FALSE)]
             ELSE [s1 EXCEPT !.ret = Some(TRUE)]
    ELSE [s EXCEPT !.ret = Some(FALSE)]

update_relay_state(s, new_state, run, notify) ==
    IF s.relay_state # new_state
    THEN LET s1 == [s EXCEPT !.relay_state = new_state,
                             !.relay = new_state,
                             !.acts = Append(s.acts, new_state)]
         IN  IF s1.wifi_connected /\ s1.server_available
             THEN LET s2 == read_soil_moisture(s1, run)
                      moisture == s2.ret[1]
                      data == [state |-> s2.relay_state, humidity |-> moisture]
                      s3 == [s2 EXCEPT !.net = Append(s2.net, Request("POST", "/relay/set", data))]
                  IN  [BackendRelaySet(s3, data.state, notify) EXCEPT !.ret = Some(TRUE)]
             ELSE [s1 EXCEPT !.ret = Some(TRUE)]
    ELSE [s EXCEPT !.ret = Some(FALSE)]

-----------------------------------------------------------------------------
(* connect_wifi *)

\* lines 49-53: one LED toggle per poll that finds the link down, at most `timeout` of them;
\* downPolls is the number of polls the link stays down for
RECURSIVE WaitForLink(_, _, _)
WaitForLink(ledv, timeout, downPolls) ==
    IF downPolls > 0 /\ timeout > 0
    THEN WaitForLink(~ledv, timeout - 1, downPolls - 1)
    ELSE ledv

\* p44 and p55 are the answers of wlan.isconnected() at lines 44 and 55
connect_wifi(s, p44, downPolls, p55) ==
    IF ~p44
    THEN LET s1 == [s EXCEPT !.led = WaitForLink(s.led, CONNECT_TIMEOUT, downPolls)]
         IN  IF p55
             THEN [s1 EXCEPT !.wifi_connected = TRUE, !.led = TRUE,
                             !.link = p55, !.ret = Some(TRUE)]
             ELSE [s1 EXCEPT !.wifi_connected = FALSE, !.led = FALSE,
                             !.link = p55, !.ret = Some(FALSE)]
    ELSE [s EXCEPT !.link = p44, !.ret = Some(TRUE)]

-----------------------------------------------------------------------------
(* check_server_connection *)

check_server_connection_AnyAnswerIsUp(s, health) ==
    IF ~s.wifi_connected
    THEN [s EXCEPT !.ret = Some(FALSE)]
    ELSE LET s1 == [s EXCEPT !.net = Append(s.net, [method |-> "GET", path |-> "/health",
                                                    body |-> <<>>])]
         IN  IF health \in {"ok", "non200"}
             THEN [s1 EXCEPT !.server_available = TRUE,
                             !.probes = IF health = "ok" THEN 0
                                        ELSE IF s.probes < 3 THEN s.probes + 1 ELSE s.probes,
                             !.ret = Some(TRUE)]
             ELSE [s1 EXCEPT !.server_available = FALSE,
                             !.probes = IF s.probes < 3 THEN s.probes + 1 ELSE s.probes,
                             !.ret = Some(FALSE)]

check_server_connection(s, health) ==
    IF ~s.wifi_connected
    THEN [s EXCEPT !.ret = Some(FALSE)]
    ELSE LET s1 == [s EXCEPT !.net = Append(s.net, Request("GET", "/health", None))]
         IN  IF health = "ok"
             THEN [s1 EXCEPT !.server_available = TRUE, !.probes = 0, !.ret = Some(TRUE)]
             ELSE [s1 EXCEPT !.server_available = FALSE,
                             !.probes = Min(s.probes + 1, MaxProbes), !.ret = Some(FALSE)]

-----------------------------------------------------------------------------
(* send_sensor_data *)

\* Line 152 assigns server_available in a function that does not declare it global,
\* so inside send_sensor_data the name is a local variable; no statement binds it
\* before line 116 reads it.
send_sensor_data_server_available == None

send_sensor_data(s, moisture, relay_state_, run, telemetry, notify) ==
    LET local == send_sensor_data_server_available IN
    IF ~s.wifi_connected
    THEN [s EXCEPT !.ret = Some(FALSE)]
    ELSE IF local = None
    THEN [s EXCEPT !.raised = TRUE, !.ret = None]
    ELSE IF ~local[1]
    THEN [s EXCEPT !.ret = Some(FALSE)]
    ELSE LET data == [humidity |-> moisture, relay_state |-> relay_state_]
             s1 == [s EXCEPT !.net = Append(s.net, Request("POST", "/sensor-data", data))]
         IN  CASE telemetry = "field" ->
                    [update_relay_state(s1, s1.srvRelay, run, notify) EXCEPT !.ret = Some(TRUE)]
               [] telemetry = "nofield" -> [s1 EXCEPT !.ret = Some(TRUE)]
               [] OTHER -> [s1 EXCEPT !.ret = Some(FALSE)]

-----------------------------------------------------------------------------
(* get_relay_status *)

\* get_relay_status answering False, the default of line 190, for a failed request too
get_relay_status_FailureIsOff(s, status) ==
    IF ~s.wifi_connected
    THEN [s EXCEPT !.ret = None]
    ELSE LET s1 == [s EXCEPT !.net = Append(s.net, Request("GET", "/relay/status", None))]
         IN  CASE status = "field" -> [s1 EXCEPT !.ret = Some(s1.srvRelay)]
               [] OTHER -> [s1 EXCEPT !.ret = Some(FALSE)]

get_relay_status(s, status) ==
    IF ~s.wifi_connected
    THEN [s EXCEPT !.ret = None]
    ELSE LET s1 == [s EXCEPT !.net = Append(s.net, Request("GET", "/relay/status", None))]
         IN  CASE status = "field" -> [s1 EXCEPT !.ret = Some(s1.srvRelay)]
               [] status = "nofield" -> [s1 EXCEPT !.ret = Some(FALSE)]
               [] OTHER -> [s1 EXCEPT !.ret = None]

-----------------------------------------------------------------------------
(* The timer callbacks *)

\* run is what the sensor answers to every sampling cycle of this callback
sensor_reading_task(s, run, telemetry, notify) ==
    IF s.wifi_connected /\ s.server_available
    THEN LET s1 == read_soil_moisture(s, run)
             moisture == s1.ret[1]
             s2 == send_sensor_data(s1, moisture, s1.relay_state, run, telemetry, notify)
         IN  IF s2.raised THEN s2
             ELSE IF ~s2.relay_state THEN [s2 EXCEPT !.led = TRUE, !.ret = None]
             ELSE [s2 EXCEPT !.ret = None]
    ELSE [s EXCEPT !.ret = None]

sync_relay_state(s, status, run, notify) ==
    IF s.wifi_connected /\ s.server_available
    THEN LET s1 == get_relay_status(s, status)
             server_state == s1.ret
         IN  IF server_state # None /\ server_state[1] # s1.relay_state
             THEN [update_relay_state(s1, server_state[1], run, notify) EXCEPT !.ret = None]
             ELSE [s1 EXCEPT !.ret = None]
    ELSE [s EXCEPT !.ret = None]

\* the poll of line 219 is s.link
check_connections(s, p44, downPolls, p55, health) ==
    IF ~s.link
    THEN LET s1 == [s EXCEPT !.wifi_connected = FALSE, !.server_available = FALSE,
                             !.led = FALSE]
         IN  [connect_wifi(s1, p44, downPolls, p55) EXCEPT !.ret = None]
    ELSE IF s.wifi_connected /\ ~s.server_available
    THEN [check_server_connection(s, health) EXCEPT !.ret = None]
    ELSE [s EXCEPT !.ret = None]

-----------------------------------------------------------------------------
(* Committing the outcome of an operation *)

Commit(s, i) ==
    /\ relay_state' = s.relay_state
    /\ last_moisture' = s.last_moisture
    /\ wifi_connected' = s.wifi_connected
    /\ server_available' = s.server_available
    /\ relay' = s.relay
    /\ led' = s.led
    /\ link' = s.link
    /\ srvRelay' = s.srvRelay
    /\ pre' = Snapshot
    /\ inp' = i
    /\ net' = s.net
    /\ acts' = s.acts
    /\ raised' = s.raised
    /\ ret' = s.ret
    /\ probes' = s.probes

-----------------------------------------------------------------------------
(* main *)

Init ==
    /\ relay_state = FALSE
    /\ last_moisture = 0
    /\ wifi_connected = FALSE
    /\ server_available = FALSE
    /\ relay \in BOOLEAN
    /\ led \in BOOLEAN
    /\ pc = "init"
    /\ timers = {}
    /\ link \in BOOLEAN
    /\ srvRelay \in BOOLEAN
    /\ stable = FALSE
    /\ op = "boot"
    /\ pre = [relay_state |-> FALSE, relay |-> relay, wifi_connected |-> FALSE,
              server_available |-> FALSE, srvRelay |-> srvRelay]
    /\ inp = NoInput
    /\ net = <<>>
    /\ acts = <<>>
    /\ raised = FALSE
    /\ ret = None
    /\ probes = 0
    /\ cb = "idle"

Input(run, health, status, telemetry, notify) ==
    [arg |-> None,
     sensor |-> IF run = NoRun THEN "none" ELSE IF run.failAt = 0 THEN "ok" ELSE "fail",
     health |-> health, status |-> status, telemetry |-> telemetry, notify |-> notify]

SENSOR_TIMER == "sensor_timer"
RELAY_TIMER == "relay_timer"
CONNECTION_TIMER == "connection_timer"

\* line 265
MainInitRelay ==
    /\ pc = "init"
    /\ op' = "main_init_relay"
    /\ pc' = "connect"
    /\ UNCHANGED <<timers, stable, cb>>
    /\ \E s \in {update_relay_state(Cur, FALSE, NoRun, "none")} : Commit(s, NoInput)

\* line 268; the poll of line 44 is the link as it is now.  An answer is drawn for
\* the polls the call can come to make.
MainConnect ==
    /\ pc = "connect"
    /\ op' = "main_connect"
    /\ UNCHANGED <<timers, stable, cb>>
    /\ \E downPolls \in (IF link THEN {0} ELSE {0, CONNECT_TIMEOUT}),
          p55 \in (IF link THEN {TRUE} ELSE LaterPolls) :
          \E s \in {connect_wifi(Cur, link, downPolls, p55)} :
             /\ pc' = IF s.ret[1] THEN "health" ELSE "timers"
             /\ Commit(s, NoInput)

\* line 269, reached when connect_wifi returned True
MainCheckServer ==
    /\ pc = "health"
    /\ op' = "main_check_server"
    /\ pc' = "timers"
    /\ UNCHANGED <<timers, stable, cb>>
    /\ \E health \in (IF wifi_connected THEN PlainAnswers ELSE {"none"}) :
          \E s \in {check_server_connection(Cur, health)} :
             Commit(s, Input(NoRun, health, "none", "none", "none"))

\* lines 273-282
MainStartTimers ==
    /\ pc = "timers"
    /\ op' = "main_start_timers"
    /\ pc' = "started"
    /\ timers' = {SENSOR_TIMER, RELAY_TIMER, CONNECTION_TIMER}
    /\ UNCHANGED <<stable, cb>>
    /\ Commit(Cur, NoInput)

\* lines 284-288: entering the try block
MainEnterLoop ==
    /\ pc = "started"
    /\ op' = "main_enter_loop"
    /\ pc' = "loop"
    /\ UNCHANGED <<timers, stable, cb>>
    /\ Commit(Cur, NoInput)

\* lines 289-294
MainHeartbeat ==
    /\ pc = "loop"
    /\ op' = "main_heartbeat"
    /\ UNCHANGED <<pc, timers, stable, cb>>
    /\ Commit(IF wifi_connected /\ server_available THEN [Cur EXCEPT !.led = TRUE] ELSE Cur,
              NoInput)

\* The positions of main inside the try block of lines 287-294: waiting in the
\* sleep of line 289, and after lines 291 and 292 of the heartbeat
InTry == {"loop", "hb_toggle", "hb_on"}

Aborted(p) ==
    CASE p = "init" -> "aborted_init"
      [] p = "connect" -> "aborted_connect"
      [] p = "health" -> "aborted_health"
      [] p = "timers" -> "aborted_timers"
      [] p = "started" -> "aborted_started"
      [] p \in InTry -> "aborted_loop"

\* An exception reaching main: only a KeyboardInterrupt raised inside the try block
\* (lines 287-294) runs the handler of lines 295-301
MainException(exc) ==
    /\ pc \in {"init", "connect", "health", "timers", "started"} \cup InTry
    /\ UNCHANGED <<stable, cb>>
    /\ IF pc \in InTry /\ exc = "KeyboardInterrupt"
       THEN /\ op' = "main_shutdown"
            /\ pc' = "done"
            /\ timers' = {}
            /\ Commit([Cur EXCEPT !.relay = FALSE, !.led = FALSE, !.acts = <<FALSE>>], NoInput)
       ELSE /\ op' = "main_aborted"
            /\ pc' = Aborted(pc)
            /\ timers' = timers
            /\ Commit([Cur EXCEPT !.raised = TRUE], NoInput)

MainInterrupted == \E exc \in {"KeyboardInterrupt", "Exception"} : MainException(exc)

\* The guard of lines 198 and 209: the callback talks to the backend
Listening == wifi_connected /\ server_available

\* Timer 0 fires.  The sensor and the backend are given an answer for every read and
\* request the callback can come to make.
SensorTask ==
    /\ SENSOR_TIMER \in timers
    /\ op' = "sensor_reading_task"
    /\ UNCHANGED <<pc, timers, stable, cb>>
    /\ \E run \in (IF Listening THEN SensorRuns ELSE {NoRun}),
          telemetry \in (IF Listening THEN JsonAnswers ELSE {"none"}) :
          \E notify \in (IF telemetry = "field" THEN PlainAnswers ELSE {"none"}) :
             \E s \in {sensor_reading_task(Cur, run, telemetry, notify)} :
                Commit(s, Input(run, "none", "none", telemetry, notify))

\* Timer 1 fires
SyncTask ==
    /\ RELAY_TIMER \in timers
    /\ op' = "sync_relay_state"
    /\ UNCHANGED <<pc, timers, stable, cb>>
    /\ \E status \in (IF Listening THEN JsonAnswers ELSE {"none"}) :
          \E run \in (IF status \in {"field", "nofield"} THEN SensorRuns ELSE {NoRun}),
             notify \in (IF status \in {"field", "nofield"} THEN PlainAnswers ELSE {"none"}) :
             \E s \in {sync_relay_state(Cur, status, run, notify)} :
                Commit(s, Input(run, "none", status, "none", notify))

\* Timer 2 fires; the poll of line 219 is the link as it is now
ConnectionTask ==
    /\ CONNECTION_TIMER \in timers
    /\ op' = "check_connections"
    /\ UNCHANGED <<pc, timers, stable, cb>>
    /\ \E p44 \in (IF link THEN {TRUE} ELSE LaterPolls) :
          \E downPolls \in (IF p44 THEN {0} ELSE {0, CONNECT_TIMEOUT}),
             p55 \in (IF p44 THEN {TRUE} ELSE LaterPolls),
             health \in (IF link /\ wifi_connected /\ ~server_available
                         THEN PlainAnswers ELSE {"none"}) :
             \E s \in {check_connections(Cur, p44, downPolls, p55, health)} :
                Commit(s, Input(NoRun, health, "none", "none", "none"))

-----------------------------------------------------------------------------
(* The environment *)

Environment(s) ==
    /\ op' = "environment"
    /\ UNCHANGED <<pc, timers, cb>>
    /\ Commit(s, NoInput)

\* The WiFi link drops or comes up
LinkChanges ==
    /\ ~stable
    /\ UNCHANGED stable
    /\ Environment([Cur EXCEPT !.link = ~link])

\* Somebody switches the relay on the backend
BackendChanges ==
    /\ ~stable
    /\ UNCHANGED stable
    /\ Environment([Cur EXCEPT !.srvRelay = ~srvRelay])

\* From now on the link stays up, the backend answers 200 and keeps its relay value
Stabilizes ==
    /\ ~stable
    /\ link
    /\ stable' = TRUE
    /\ Environment(Cur)

Next ==
    \/ MainInitRelay
    \/ MainConnect
    \/ MainCheckServer
    \/ MainStartTimers
    \/ MainEnterLoop
    \/ MainHeartbeat
    \/ MainInterrupted
    \/ SensorTask
    \/ SyncTask
    \/ ConnectionTask
    \/ LinkChanges
    \/ BackendChanges
    \/ Stabilizes

Spec == Init /\ [][Next]_vars

\* The timers are periodic and main runs on
Fairness ==
    /\ WF_vars(MainInitRelay \/ MainConnect \/ MainCheckServer \/ MainStartTimers
                    \/ MainEnterLoop)
    /\ WF_vars(SensorTask)
    /\ WF_vars(SyncTask)
    /\ WF_vars(ConnectionTask)

FairSpec == Spec /\ Fairness

-----------------------------------------------------------------------------
(* update_relay_state called directly: any flags, any sequence of arguments *)

RelayInit ==
    /\ relay_state \in BOOLEAN
    /\ last_moisture = 0
    /\ wifi_connected \in BOOLEAN
    /\ server_available \in BOOLEAN
    /\ relay = relay_state
    /\ led = FALSE
    /\ pc = "call"
    /\ timers = {}
    /\ link = wifi_connected
    /\ srvRelay \in BOOLEAN
    /\ stable = FALSE
    /\ op = "boot"
    /\ pre = Snapshot
    /\ inp = NoInput
    /\ net = <<>>
    /\ acts = <<>>
    /\ raised = FALSE
    /\ ret = None
    /\ probes = 0
    /\ cb = "idle"

CallUpdateRelayState ==
    /\ pc = "call"
    /\ op' = "update_relay_state"
    /\ UNCHANGED <<pc, timers, stable, cb>>
    /\ \E new_state \in BOOLEAN, run \in SensorRuns, notify \in PlainAnswers :
          \E s \in {update_relay_state(Cur, new_state, run, notify)} :
             Commit(s, [Input(run, "none", "none", "none", notify) EXCEPT !.arg = Some(new_state)])

RelayNext == CallUpdateRelayState

RelaySpec == RelayInit /\ [][RelayNext]_vars

-----------------------------------------------------------------------------
(* read_soil_moisture called directly after boot.  The sensor starts at any    *)
(* level of the 12-bit range and holds it for the five reads of a cycle; from  *)
(* one cycle to the next the level rises by one.  A cycle can also run on one  *)
(* of the sampling cycles of SensorRuns.  pc tells whether a cycle has         *)
(* succeeded since boot.                                                       *)

SensorInit ==
    /\ relay_state = FALSE
    /\ last_moisture = 0
    /\ wifi_connected = FALSE
    /\ server_available = FALSE
    /\ relay = FALSE
    /\ led = FALSE
    /\ pc = "unsampled"
    /\ timers = {}
    /\ link = FALSE
    /\ srvRelay = FALSE
    /\ stable = FALSE
    /\ op = "boot"
    /\ pre = Snapshot
    /\ \E raw \in 0..ADC_MAX : inp = [NoInput EXCEPT !.arg = Some(raw)]
    /\ net = <<>>
    /\ acts = <<>>
    /\ raised = FALSE
    /\ ret = None
    /\ probes = 0
    /\ cb = "idle"

\* The level of inp.arg is read at the first cycle, the next level at a later one;
\* the cycle succeeds, or its first or its last read raises
CallReadSoilMoisture ==
    /\ pc \in {"unsampled", "sampled"}
    /\ inp.arg # None
    /\ op' = "read_soil_moisture"
    /\ UNCHANGED <<timers, stable, cb>>
    /\ \E level \in {IF op = "boot" THEN inp.arg[1] ELSE inp.arg[1] + 1},
          failAt \in {0, 1, NUM_READINGS} :
          /\ level <= ADC_MAX
          /\ pc' = IF failAt = 0 THEN "sampled" ELSE pc
          /\ \E run \in {[readings |-> [i \in 1..NUM_READINGS |-> level], failAt |-> failAt]} :
                \E s \in {read_soil_moisture(Cur, run)} :
                   Commit(s, [Input(run, "none", "none", "none", "none")
                                 EXCEPT !.arg = Some(level)])

\* A cycle on one of the sampling cycles of SensorRuns; no level is followed afterwards
CallReadCycle ==
    /\ pc \in {"unsampled", "sampled"}
    /\ op' = "read_soil_moisture"
    /\ UNCHANGED <<timers, stable, cb>>
    /\ \E run \in SensorRuns :
          /\ pc' = IF run.failAt = 0 THEN "sampled" ELSE pc
          /\ \E s \in {read_soil_moisture(Cur, run)} :
                Commit(s, Input(run, "none", "none", "none", "none"))

SensorNext ==
    \/ CallReadSoilMoisture
    \/ CallReadCycle

SensorSpec == SensorInit /\ [][SensorNext]_vars

-----------------------------------------------------------------------------
(* The main loop and check_connections run statement by statement, with the    *)
(* timer callbacks and the environment free to act between two statements.     *)
(* The board starts from a power-on reset: both output pins are low.           *)

PreemptInit ==
    /\ Init
    /\ ~relay
    /\ ~led

\* line 291, after the sleep of line 289
HeartbeatTest ==
    /\ pc = "loop"
    /\ op' = "main_heartbeat_291"
    /\ pc' = IF wifi_connected /\ server_available THEN "hb_toggle" ELSE "loop"
    /\ UNCHANGED <<timers, stable, cb>>
    /\ Commit(Cur, NoInput)

\* line 292
HeartbeatToggle ==
    /\ pc = "hb_toggle"
    /\ op' = "main_heartbeat_292"
    /\ pc' = "hb_on"
    /\ UNCHANGED <<timers, stable, cb>>
    /\ Commit([Cur EXCEPT !.led = ~led], NoInput)

\* lines 293-294
HeartbeatOn ==
    /\ pc = "hb_on"
    /\ op' = "main_heartbeat_294"
    /\ pc' = "loop"
    /\ UNCHANGED <<timers, stable, cb>>
    /\ Commit([Cur EXCEPT !.led = TRUE], NoInput)

\* Timer 2 fires: lines 219-221 when the link is down, the whole callback (lines
\* 219 and 225-227) when it is up
ConnBegin ==
    /\ CONNECTION_TIMER \in timers
    /\ cb = "idle"
    /\ UNCHANGED <<pc, timers, stable>>
    /\ IF ~link
       THEN /\ op' = "check_connections_221"
            /\ cb' = "l222"
            /\ Commit([Cur EXCEPT !.wifi_connected = FALSE], NoInput)
       ELSE /\ op' = "check_connections"
            /\ cb' = "idle"
            /\ \E health \in (IF wifi_connected /\ ~server_available
                               THEN PlainAnswers ELSE {"none"}) :
                  \E s \in {check_connections(Cur, TRUE, 0, TRUE, health)} :
                     Commit(s, Input(NoRun, health, "none", "none", "none"))

\* lines 222-224
ConnFinish ==
    /\ cb = "l222"
    /\ op' = "check_connections_224"
    /\ cb' = "idle"
    /\ UNCHANGED <<pc, timers, stable>>
    /\ \E p44 \in (IF link THEN {TRUE} ELSE LaterPolls) :
          \E downPolls \in (IF p44 THEN {0} ELSE {0, CONNECT_TIMEOUT}),
             p55 \in (IF p44 THEN {TRUE} ELSE LaterPolls) :
             \E s \in {connect_wifi([Cur EXCEPT !.server_available = FALSE, !.led = FALSE],
                                    p44, downPolls, p55)} :
                Commit([s EXCEPT !.ret = None], NoInput)

PreemptNext ==
    \/ MainInitRelay
    \/ MainConnect
    \/ MainCheckServer
    \/ MainStartTimers
    \/ MainEnterLoop
    \/ HeartbeatTest
    \/ HeartbeatToggle
    \/ HeartbeatOn
    \/ MainInterrupted
    \/ SensorTask
    \/ SyncTask
    \/ ConnBegin
    \/ ConnFinish
    \/ LinkChanges
    \/ BackendChanges
    \/ Stabilizes

PreemptSpec == PreemptInit /\ [][PreemptNext]_vars

-----------------------------------------------------------------------------
(* Properties *)

PostsTo(path) == ToPath(net, "POST", path)
GetsTo(path) == ToPath(net, "GET", path)

\* C1: once the link stays up, the backend answers 200 and keeps its relay value s,
\* the running device (main in its loop, the timers firing) eventually has wifi_connected,
\* server_available and relay_state = s, and keeps them.
C1_EventuallyConsistent ==
    <>[]((stable /\ pc = "loop")
            => (wifi_connected /\ server_available /\ relay_state = srvRelay))

\* C2: a relay change that comes from the backend (applied by sync_relay_state or by the
\* telemetry response) writes the actuator once and issues no POST /relay/set.
C2_RemoteChangeSilent ==
    (op \in {"sync_relay_state", "sensor_reading_task"} /\ acts # <<>>)
        => (Len(acts) = 1 /\ PostsTo("/relay/set") = <<>>)

\* C3: update_relay_state(v) with v different from relay_state writes the actuator exactly
\* once, and issues exactly one POST /relay/set carrying {state: v, humidity: the current
\* moisture} when wifi_connected and server_available are both true and no request
\* otherwise; with v equal to relay_state it writes nothing and issues no request.
C3_OneActuationOneNotification ==
    op = "update_relay_state" =>
        LET v == inp.arg[1] IN
        IF v # pre.relay_state
        THEN /\ acts = <<v>>
             /\ relay_state = v
             /\ relay = v
             /\ net = IF pre.wifi_connected /\ pre.server_available
                      THEN <<Request("POST", "/relay/set",
                                     [state |-> v, humidity |-> last_moisture])>>
                      ELSE <<>>
        ELSE /\ acts = <<>>
             /\ net = <<>>
             /\ relay_state = pre.relay_state
             /\ relay = pre.relay

C3_Witness ==
    /\ op = "update_relay_state"
    /\ inp.arg = Some(TRUE)
    /\ ~pre.relay_state
    /\ pre.wifi_connected /\ pre.server_available
    /\ Len(PostsTo("/relay/set")) = 1
    /\ last_moisture > 0

\* C4: with the backend unreachable, sensor_reading_task (and the send_sensor_data it
\* calls) returns without an exception and leaves relay_state and the actuator alone,
\* whatever wifi_connected and server_available are.
C4_TelemetrySafe ==
    (op = "sensor_reading_task" /\ inp.telemetry \in {"exc", "none"})
        => (~raised /\ relay_state = pre.relay_state /\ relay = pre.relay /\ acts = <<>>)

\* C5: a telemetry cycle whose exchange with the backend fails (transport exception,
\* non-200 status, malformed body) ends with server_available false, and has issued at
\* most one POST /sensor-data.
C5_FailureMarksUnavailable ==
    (op = "sensor_reading_task" /\ inp.telemetry \in {"exc", "non200", "badjson"})
        => (~server_available /\ Len(PostsTo("/sensor-data")) <= 1)

\* C6: when wifi_connected and server_available hold and the backend answers the
\* telemetry POST with 200 and currentRelayState = s, sensor_reading_task ends with
\* relay_state = s and the actuator at s; a 200 body without the field leaves
\* relay_state unchanged.
C6_TelemetryOverride ==
    (op = "sensor_reading_task" /\ pre.wifi_connected /\ pre.server_available)
        => /\ inp.telemetry = "field" => (relay_state = pre.srvRelay /\ relay = pre.srvRelay)
           /\ inp.telemetry = "nofield" => relay_state = pre.relay_state

\* C7: a 200 answer to GET /relay/status whose body lacks relayState leaves relay_state
\* and the actuator as they were.
C7_MalformedStatusIgnored ==
    (op = "sync_relay_state" /\ inp.status = "nofield")
        => (relay_state = pre.relay_state /\ relay = pre.relay /\ acts = <<>>)

\* C8: when GET /relay/status raises a transport error or returns a non-200 status,
\* sync_relay_state leaves relay_state and the actuator as they were, issues no
\* POST /relay/set and lets no exception escape.
C8_FailedPollChangesNothing ==
    (op = "sync_relay_state" /\ inp.status \in {"exc", "non200"})
        => /\ relay_state = pre.relay_state
           /\ relay = pre.relay
           /\ acts = <<>>
           /\ PostsTo("/relay/set") = <<>>
           /\ ~raised

C8_Witness ==
    /\ op = "sync_relay_state"
    /\ inp.status = "exc"
    /\ Len(GetsTo("/relay/status")) = 1
    /\ relay_state
    /\ relay
    /\ ~srvRelay

\* C9: when update_relay_state changes the relay and the notification fails (the POST
\* /relay/set raises or is refused, or the moisture read before it fails), the call still
\* ends with relay_state and the actuator at the new value and lets no exception escape.
C9_NoRollback ==
    (/\ op \in {"sync_relay_state", "update_relay_state"}
     /\ acts # <<>>
     /\ (inp.notify \in {"exc", "non200"} \/ inp.sensor = "fail"))
        => /\ relay_state = ~pre.relay_state
           /\ relay = ~pre.relay_state
           /\ acts = <<~pre.relay_state>>
           /\ ~raised

C9_Witness ==
    /\ op = "sync_relay_state"
    /\ inp.notify = "exc"
    /\ Len(PostsTo("/relay/set")) = 1
    /\ ~pre.relay_state
    /\ relay_state
    /\ relay

\* C10: once main has exited after creating the timers, by the KeyboardInterrupt handler
\* or by any other exception, the three timers are deinitialised and the actuator is off,
\* and stays off.
C10_ShutdownSafe ==
    pc \in {"done", "aborted_started", "aborted_loop"} => (timers = {} /\ ~relay)

\* C11: what connect_wifi returns agrees with wifi_connected when it returns: True with
\* wifi_connected true, False with wifi_connected false, on every path, the one where
\* the link is already associated at entry included.
C11_ResultAgreesWithFlag ==
    op = "main_connect" => ret = Some(wifi_connected)

\* C12: a telemetry cycle started while wifi_connected and server_available are not both
\* true issues no request; a POST /sensor-data is only ever issued by a cycle started with
\* both true, and a cycle issues at most one (nothing is kept from a skipped cycle); as
\* long as GET /health probes have failed in a row, three times included, server_available
\* is false and a telemetry cycle issues no request.
C12_TelemetryGated ==
    /\ (op = "sensor_reading_task" /\ ~(pre.wifi_connected /\ pre.server_available))
          => net = <<>>
    /\ PostsTo("/sensor-data") # <<>>
          => /\ op = "sensor_reading_task"
             /\ pre.wifi_connected /\ pre.server_available
             /\ Len(PostsTo("/sensor-data")) = 1
    /\ probes > 0 => ~server_available
    /\ (op = "sensor_reading_task" /\ probes > 0) => net = <<>>

C12_Witness ==
    /\ op = "sensor_reading_task"
    /\ probes = MaxProbes
    /\ pre.wifi_connected
    /\ ~pre.server_available
    /\ link
    /\ net = <<>>

\* C13: in every state, between two statements of check_connections included,
\* server_available implies wifi_connected; and check_server_connection called with
\* wifi_connected false returns False, issues no request and leaves server_available
\* false.
C13_AvailableImpliesConnected ==
    /\ server_available => wifi_connected
    /\ (op = "main_check_server" /\ ~pre.wifi_connected)
          => (ret = Some(FALSE) /\ net = <<>> /\ ~server_available)

\* C14 as stated: for a raw average strictly between WET_VALUE and DRY_VALUE the
\* percentage is 100 - (raw - WET_VALUE) * 100 / (DRY_VALUE - WET_VALUE) with the whole
\* expression truncated toward zero; 2797 gives 50, 1500 gives 100, 4095 gives 0.
C14_WholeExpressionTruncated ==
    (op = "read_soil_moisture" /\ inp.arg # None /\ inp.sensor = "ok") =>
        LET raw == inp.arg[1]
            d == DRY_VALUE - WET_VALUE
        IN  /\ (WET_VALUE < raw /\ raw < DRY_VALUE)
                  => ret = Some(((100 * d) - ((raw - WET_VALUE) * 100)) \div d)
            /\ raw = 2797 => ret = Some(50)
            /\ raw = WET_VALUE => ret = Some(100)
            /\ raw = DRY_VALUE => ret = Some(0)

\* C14 amended: only the quotient is truncated, so for a raw average strictly between
\* WET_VALUE and DRY_VALUE the percentage is the exact interpolated value
\* 100 * (DRY_VALUE - raw) / (DRY_VALUE - WET_VALUE) rounded up to an integer; 2797
\* gives 51, 1500 gives 100, 4095 gives 0.
C14_QuotientTruncated ==
    (op = "read_soil_moisture" /\ inp.arg # None /\ inp.sensor = "ok") =>
        LET raw == inp.arg[1]
            d == DRY_VALUE - WET_VALUE
        IN  /\ ret # None
            /\ ret = Some(last_moisture)
            /\ (WET_VALUE < raw /\ raw < DRY_VALUE)
                  => /\ (ret[1] - 1) * d < 100 * (DRY_VALUE - raw)
                     /\ 100 * (DRY_VALUE - raw) <= ret[1] * d
            /\ raw = 2797 => ret = Some(51)
            /\ raw = WET_VALUE => ret = Some(100)
            /\ raw = DRY_VALUE => ret = Some(0)

C14_Witness ==
    /\ op = "read_soil_moisture"
    /\ inp.sensor = "ok"
    /\ inp.arg = Some(2797)
    /\ ret = Some(51)

\* C15: over the whole range 0..ADC_MAX the percentage of a successful cycle is an
\* integer of 0..100, is 100 for a raw average up to WET_VALUE and 0 from DRY_VALUE on,
\* and the cycle that reads the next higher level never yields a higher percentage.
C15_MonotoneAndClamped ==
    /\ []((op = "read_soil_moisture" /\ inp.arg # None /\ inp.sensor = "ok")
             => /\ ret # None
                /\ ret[1] \in 0..100
                /\ inp.arg[1] <= WET_VALUE => ret[1] = 100
                /\ inp.arg[1] >= DRY_VALUE => ret[1] = 0)
    /\ [][(/\ op = "read_soil_moisture" /\ inp.arg # None /\ inp.sensor = "ok"
           /\ op' = "read_soil_moisture" /\ inp'.arg = Some(inp.arg[1] + 1)
           /\ inp'.sensor = "ok")
             => ret'[1] <= ret[1]]_vars

C15_Witness ==
    /\ op = "read_soil_moisture"
    /\ inp.sensor = "ok"
    /\ pc = "sampled"
    /\ inp.arg = Some(DRY_VALUE - 1)
    /\ ret = Some(1)

\* C16: a cycle in which a read fails returns last_moisture, and that value is the
\* percentage a successful cycle produced, on the first cycle after boot as well.
C16_FailureReturnsLastGood ==
    (op = "read_soil_moisture" /\ inp.sensor = "fail")
        => (ret = Some(last_moisture) /\ pc = "sampled")

\* C17: when main has run its initial update_relay_state(False), relay_state is false,
\* the relay pin is off and the step has written off to the pin, whatever level the pin
\* had before boot.
C17_BootDrivesRelayOff ==
    op = "main_init_relay" => (~relay_state /\ ~relay /\ acts = <<FALSE>>)

\* C18: with the callbacks free to run between two statements of the main loop, whenever
\* main is not inside its heartbeat sequence and check_connections is not running, the
\* LED is on exactly when wifi_connected is true.
C18_LedProjectsWifi ==
    (pc = "loop" /\ cb = "idle") => (led <=> wifi_connected)

\* The backend's relay value was switched on the backend in the last step
BackendSwitched == op = "environment" /\ srvRelay # pre.srvRelay

\* A callback changed the relay or sent a POST /relay/set in the last step
DeviceSwitched ==
    /\ op \in {"sync_relay_state", "sensor_reading_task"}
    /\ (acts # <<>> \/ PostsTo("/relay/set") # <<>>)

C20_PinFollowsState ==
    pc \in {"connect", "health", "timers", "started", "loop"} => (relay <=> relay_state)

====
